---- MODULE Spec2Model ----
(***************************************************************************)
(* Model of sample_databricks_app/app.py: a Streamlit page that reads the  *)
(* forwarded access token and two dates, runs one aggregation query on a   *)
(* SQL warehouse on behalf of the user, and renders metrics, a table and   *)
(* two bar charts, or a warning, or an error.                              *)
(*                                                                         *)
(* Money is counted in cents.  A calendar date is <<year, month, day>>, a  *)
(* timestamp is <<year, month, day, hour>>.  An average is kept as the     *)
(* exact fraction [num, den].                                              *)
(***************************************************************************)
EXTENDS Integers, Sequences, FiniteSets

VARIABLES
    env_warehouse_id,      \* os.getenv('DATABRICKS_WAREHOUSE_ID') is set
    employees,             \* warehouse table employees: EMPLOYEEID -> names
    salesorders,           \* warehouse table salesorders: a set of rows
    headers,               \* per session: X-Forwarded-Access-Token of the request
    start_date,            \* per session: the "開始日" widget value
    end_date,              \* per session: the "終了日" widget value
    pc,                    \* per session: position of the script run
    user_token,            \* per session: script variable user_token
    employee_sales_query,  \* per session: the two interpolated date strings
    connOpen,              \* per session: the connection is open
    connToken,             \* per session: access_token given to sql.connect
    cursorOpen,            \* per session: the cursor is open
    exc,                   \* per session: the exception in flight or caught
    sales_data,            \* per session: the DataFrame (a sequence of rows)
    page,                  \* per session: what the run has put on the page
    nConnect,              \* per session: sql.connect calls of this run
    nExecute               \* per session: cursor.execute calls of this run

vars == <<env_warehouse_id, employees, salesorders, headers, start_date,
          end_date, pc, user_token, employee_sales_query, connOpen, connToken,
          cursorOpen, exc, sales_data, page, nConnect, nExecute>>

(***************************************************************************)
(* Bounds of the model.                                                    *)
(***************************************************************************)
MaxDates == 3

MaxOrders == 2

MaxEmployees == 11

Sessions == {"s1", "s2"}

\* Python's None as a header value or token.
None == <<>>

\* A nullable column value is <<>> (SQL NULL, None in pandas) or <<v>>.
NULL == <<>>

\* A script variable not assigned yet in this run.
Unset == <<"unset">>

\* The dates a date picker can return, in calendar order.
CalDates ==
    << <<2022, 12, 31>>, <<2023, 1, 1>>, <<2023, 1, 2>>, <<2023, 2, 1>>,
       <<2023, 10, 9>> >>

Dates == {CalDates[i] : i \in 1..MaxDates}

\* Hours of the day at which an order may have been created.
Hours == {0, 12}

\* date(2023, 1, 1), the default of the start date picker.
DefaultStart == <<2023, 1, 1>>

\* sales_data.head(10)
TopN == 10

(***************************************************************************)
(* Tokens.  Each session's proxy forwards that user's own token, an        *)
(* invalid one, or none.                                                   *)
(***************************************************************************)
TokenOf(s) == <<"token", s>>

InvalidToken == <<"token", "expired">>

ValidTokens == {TokenOf(s) : s \in Sessions}

HeaderValues(s) == {None, InvalidToken, TokenOf(s)}

(***************************************************************************)
(* strftime('%Y-%m-%d') and the warehouse's reading of the literal.        *)
(***************************************************************************)
DigitChar == <<"0", "1", "2", "3", "4", "5", "6", "7", "8", "9">>

RECURSIVE ZeroPad(_, _)
\* n written in exactly w decimal digits.
ZeroPad(n, w) ==
    IF w = 0 THEN <<>>
    ELSE Append(ZeroPad(n \div 10, w - 1), DigitChar[(n % 10) + 1])

DigitValue(c) == (CHOOSE i \in 1..10 : DigitChar[i] = c) - 1

RECURSIVE ParseDigits(_)
ParseDigits(str) ==
    IF str = <<>> THEN 0
    ELSE 10 * ParseDigits(SubSeq(str, 1, Len(str) - 1))
         + DigitValue(str[Len(str)])

\* start_date.strftime('%Y-%m-%d')
StrftimeYmd(d) ==
    ZeroPad(d[1], 4) \o <<"-">> \o ZeroPad(d[2], 2) \o <<"-">> \o ZeroPad(d[3], 2)

\* The warehouse casts a 'YYYY-MM-DD' literal compared with a timestamp to
\* the timestamp of that day's midnight.
CastToTimestamp(str) ==
    << ParseDigits(SubSeq(str, 1, 4)), ParseDigits(SubSeq(str, 6, 7)),
       ParseDigits(SubSeq(str, 9, 10)), 0 >>

RECURSIVE LexLeq(_, _)
LexLeq(a, b) ==
    IF a = <<>> THEN TRUE
    ELSE IF a[1] # b[1] THEN a[1] < b[1]
    ELSE LexLeq(Tail(a), Tail(b))

BetweenSymmetric(t, lo, hi) ==
    \/ LexLeq(CastToTimestamp(lo), t) /\ LexLeq(t, CastToTimestamp(hi))
    \/ LexLeq(CastToTimestamp(hi), t) /\ LexLeq(t, CastToTimestamp(lo))

\* so.CREATEDAT BETWEEN '{start_date_str}' AND '{end_date_str}'
Between(t, lo, hi) ==
    LexLeq(CastToTimestamp(lo), t) /\ LexLeq(t, CastToTimestamp(hi))

(***************************************************************************)
(* The warehouse's evaluation of employee_sales_query.                     *)
(***************************************************************************)
RECURSIVE SumFn(_, _)
\* The sum of f over the set S.
SumFn(f, S) ==
    IF S = {} THEN 0
    ELSE LET x == CHOOSE x \in S : TRUE
         IN  f[x] + SumFn(f, S \ {x})

\* SUM(col) of a NOT NULL column over a non-empty group.
SqlSum(f, S) == SumFn(f, S)

\* SUM(col) of a nullable column: NULL values are skipped; NULL when the
\* group holds no value.
SqlSumNullable(f, S) ==
    LET vals == {x \in S : f[x] # NULL}
    IN  IF vals = {} THEN NULL ELSE <<SumFn([x \in vals |-> f[x][1]], vals)>>

RECURSIVE Gcd(_, _)
Gcd(a, b) == IF b = 0 THEN a ELSE Gcd(b, a % b)

\* The fraction n/d in lowest terms (n >= 0, d > 0).
Frac(n, d) ==
    LET g == Gcd(n, d)
    IN  [num |-> n \div g, den |-> d \div g]

\* AVG(col) of a NOT NULL column over a non-empty group: the exact mean.
SqlAvg(f, S) == Frac(SumFn(f, S), Cardinality(S))

SqlMin(T) == CHOOSE t \in T : \A u \in T : LexLeq(t, u)

SqlMax(T) == CHOOSE t \in T : \A u \in T : LexLeq(u, t)

\* e.NAME_FIRST || ' ' || e.NAME_LAST as FULL_NAME
FullName(e) == <<employees[e].NAME_FIRST, " ", employees[e].NAME_LAST>>

\* LEFT JOIN ... ON e.EMPLOYEEID = so.CREATEDBY WHERE so.CREATEDAT BETWEEN:
\* the orders of employee e that pass the filter (an employee without such
\* an order yields a NULL CREATEDAT, which the WHERE clause drops).
MatchingOrders(e, q) ==
    {so \in salesorders : so.CREATEDBY = e /\ Between(so.CREATEDAT, q.lo, q.hi)}

\* One row of the SELECT list for the group of employee e.
GroupRow(e, q) ==
    LET G == MatchingOrders(e, q)
    IN  [EMPLOYEEID |-> e,
         NAME_FIRST |-> employees[e].NAME_FIRST,
         NAME_LAST |-> employees[e].NAME_LAST,
         FULL_NAME |-> FullName(e),
         ORDER_COUNT |-> Cardinality({so.SALESORDERID : so \in G}),
         TOTAL_SALES |-> SqlSum([so \in G |-> so.NETAMOUNT], G),
         TOTAL_GROSS |-> SqlSumNullable([so \in G |-> so.GROSSAMOUNT], G),
         TOTAL_TAX |-> SqlSum([so \in G |-> so.TAXAMOUNT], G),
         AVERAGE_ORDER_VALUE |-> SqlAvg([so \in G |-> so.NETAMOUNT], G),
         FIRST_ORDER_DATE |-> SqlMin({so.CREATEDAT : so \in G}),
         LAST_ORDER_DATE |-> SqlMax({so.CREATEDAT : so \in G})]

\* GROUP BY e.EMPLOYEEID, e.NAME_FIRST, e.NAME_LAST
GroupedRows(q) ==
    {GroupRow(e, q) : e \in {e \in DOMAIN employees : MatchingOrders(e, q) # {}}}

SortKey(r) == r.TOTAL_SALES

\* ORDER BY TOTAL_SALES DESC: r may stand before t.  The order of rows with
\* equal TOTAL_SALES is the warehouse's choice (tieAsc).
OrderedBefore(r, t, tieAsc) ==
    \/ SortKey(r) > SortKey(t)
    \/ /\ SortKey(r) = SortKey(t)
       /\ IF tieAsc THEN r.EMPLOYEEID <= t.EMPLOYEEID
                    ELSE r.EMPLOYEEID >= t.EMPLOYEEID

RECURSIVE OrderBy(_, _)
OrderBy(R, tieAsc) ==
    IF R = {} THEN <<>>
    ELSE LET r == CHOOSE r \in R : \A t \in R : OrderedBefore(r, t, tieAsc)
         IN  <<r>> \o OrderBy(R \ {r}, tieAsc)

\* cursor.fetchall_arrow().to_pandas(): the whole result, in result order.
QueryResult(q, tieAsc) == OrderBy(GroupedRows(q), tieAsc)

(***************************************************************************)
(* The presentation layer's computations.                                  *)
(***************************************************************************)
RECURSIVE Digits(_)
Digits(n) ==
    IF n < 10 THEN <<DigitChar[n + 1]>>
    ELSE Append(Digits(n \div 10), DigitChar[(n % 10) + 1])

RECURSIVE FormatThousands(_)
\* f"{n:,}"
FormatThousands(n) ==
    IF n < 1000 THEN Digits(n)
    ELSE FormatThousands(n \div 1000) \o <<",">> \o ZeroPad(n % 1000, 3)

\* f"${x:,.2f}" of an amount of c cents.
FormatCurrency(c) ==
    <<"$">> \o FormatThousands(c \div 100) \o <<".">> \o ZeroPad(c % 100, 2)

\* The fraction f rounded to a whole number (of cents), ties to even.
RoundHalfEven(f) ==
    LET q == f.num \div f.den
        r == f.num % f.den
    IN  IF 2 * r < f.den THEN q
        ELSE IF 2 * r > f.den THEN q + 1
        ELSE IF q % 2 = 0 THEN q ELSE q + 1

FracAdd(a, b) == Frac(a.num * b.den + b.num * a.den, a.den * b.den)

RECURSIVE SeriesSum(_, _)
\* sales_data[col].sum()
SeriesSum(df, col) ==
    IF df = <<>> THEN 0 ELSE df[1][col] + SeriesSum(Tail(df), col)

RECURSIVE FracSeriesSum(_)
FracSeriesSum(df) ==
    IF df = <<>> THEN Frac(0, 1)
    ELSE FracAdd(df[1].AVERAGE_ORDER_VALUE, FracSeriesSum(Tail(df)))

WeightedMean(df) ==
    Frac(SeriesSum(df, "TOTAL_SALES"), SeriesSum(df, "ORDER_COUNT"))

\* sales_data['AVERAGE_ORDER_VALUE'].mean()
SeriesMean(df) ==
    LET t == FracSeriesSum(df)
    IN  Frac(t.num, t.den * Len(df))

\* The four st.metric values, in column order.
SummaryMetrics(df) ==
    [employees |-> Len(df),
     total_sales |-> FormatCurrency(SeriesSum(df, "TOTAL_SALES")),
     total_orders |-> FormatThousands(SeriesSum(df, "ORDER_COUNT")),
     avg_order_value |-> FormatCurrency(RoundHalfEven(SeriesMean(df)))]

\* The format spec ',.2f' applied to None raises TypeError.
Formattable(x) == x # NULL

\* The .apply(lambda x: f"${x:,.2f}") calls all succeed on df.  TOTAL_SALES,
\* TOTAL_TAX and AVERAGE_ORDER_VALUE come from NOT NULL columns.
TableFormattable(df) ==
    \A i \in 1..Len(df) : Formattable(df[i].TOTAL_GROSS)

\* display_data: currency columns formatted, columns renamed and selected.
\* The display names are 従業員ID, 氏名, 注文数, 純売上, 総売上, 税額,
\* 平均注文単価, 初回注文日, 最終注文日.
DisplayData(df) ==
    [i \in 1..Len(df) |->
        [employee_id |-> df[i].EMPLOYEEID,
         full_name |-> df[i].FULL_NAME,
         order_count |-> df[i].ORDER_COUNT,
         net_sales |-> FormatCurrency(df[i].TOTAL_SALES),
         gross_sales |-> FormatCurrency(df[i].TOTAL_GROSS[1]),
         tax |-> FormatCurrency(df[i].TOTAL_TAX),
         average_order_value |->
             FormatCurrency(RoundHalfEven(df[i].AVERAGE_ORDER_VALUE)),
         first_order |-> df[i].FIRST_ORDER_DATE,
         last_order |-> df[i].LAST_ORDER_DATE]]

top_10_all(df) == df

\* top_10 = sales_data.head(10)
top_10(df) == SubSeq(df, 1, IF Len(df) < TopN THEN Len(df) ELSE TopN)

\* top_10.set_index('FULL_NAME')[col]
ChartData(df, col) ==
    [i \in 1..Len(top_10(df)) |->
        <<top_10(df)[i].FULL_NAME, top_10(df)[i][col]>>]

(***************************************************************************)
(* Warehouse contents the runs are checked against.                        *)
(***************************************************************************)
EmployeeTable(n) ==
    [e \in 1..n |-> [NAME_FIRST |-> <<"first", e>>, NAME_LAST |-> <<"last", e>>]]

Order(id, by, at, net, gross) ==
    [SALESORDERID |-> id, CREATEDBY |-> by, CREATEDAT |-> at,
     NETAMOUNT |-> net, GROSSAMOUNT |-> gross, TAXAMOUNT |-> net \div 10]

Timestamp(d, h) == <<d[1], d[2], d[3], h>>

Gross(net) == <<net + net \div 10>>

\* One order of employee 1 at noon of 2023-01-01 whose GROSSAMOUNT is NULL.
NullGrossOrders == {Order(1, 1, Timestamp(DefaultStart, 12), 123450, NULL)}

\* Two employees; one order without gross amount, or an order of each
\* employee, on the first and on the default start date.
CycleWarehouses ==
    {[employees |-> EmployeeTable(2), salesorders |-> so] :
        so \in {NullGrossOrders,
                {Order(1, 1, Timestamp(CalDates[1], 0), 5000, Gross(5000)),
                 Order(2, 2, Timestamp(DefaultStart, 12), 7025, Gross(7025))}}}

\* Two employees and up to MaxOrders orders, each by either employee at any
\* modelled date and hour; order i is worth 1000 * i + 50 cents net.
QueryWarehouses ==
    UNION {{[employees |-> EmployeeTable(2),
             salesorders |-> {Order(i, by[i], Timestamp(at[i][1], at[i][2]),
                                    1000 * i + 50, Gross(1000 * i + 50)) :
                                 i \in 1..n}] :
               by \in [1..n -> 1..2], at \in [1..n -> Dates \X Hours]} :
           n \in 0..MaxOrders}

\* Net amount of the j-th order of employee i under pattern k: rising with
\* i, equal for all, or scattered.
PatternAmount(i, j, k) ==
    CASE k = 0 -> 100000 * i + 25 * (j - 1)
      [] k = 1 -> 123450
      [] OTHER -> 10000 * ((7 * i) % 5) + 999 + 25 * (j - 1)

\* Number of orders of employee i under pattern k.
PatternCount(i, k) ==
    CASE k = 0 -> 1 + (i % 2)
      [] k = 1 -> 1
      [] OTHER -> IF i % 3 = 0 THEN 2 ELSE 1

Patterns == 0..2

\* 1..MaxEmployees employees, each with one or two orders on 2023-01-01.
PresentationWarehouses ==
    {[employees |-> EmployeeTable(n),
      salesorders |->
          UNION {{Order(2 * i + j, i, Timestamp(DefaultStart, 0),
                        PatternAmount(i, j, k), Gross(PatternAmount(i, j, k))) :
                     j \in 1..PatternCount(i, k)} : i \in 1..n}] :
        n \in 1..MaxEmployees, k \in Patterns}
    \cup {[employees |-> EmployeeTable(2), salesorders |-> NullGrossOrders]}

(***************************************************************************)
(* The state after the page is opened.                                     *)
(***************************************************************************)
EmptyPage ==
    [elements |-> {}, metrics |-> <<>>, table |-> <<>>, sales_chart |-> <<>>,
     orders_chart |-> <<>>, message |-> "none"]

NoQuery == [lo |-> <<>>, hi |-> <<>>]

\* A session of `active` opens the page; the others never do.
InitWith(active, warehouses) ==
    /\ env_warehouse_id \in BOOLEAN
    /\ \E w \in warehouses :
        /\ employees = w.employees
        /\ salesorders = w.salesorders
    /\ headers \in {h \in [Sessions -> {None, InvalidToken} \cup ValidTokens] :
                       \A s \in Sessions :
                           h[s] \in IF s \in active THEN HeaderValues(s) ELSE {None}}
    /\ start_date = [s \in Sessions |-> DefaultStart]
    \* date.today(), not before the default start date
    /\ end_date \in {d \in [Sessions -> Dates] :
                        \A s \in Sessions :
                            /\ LexLeq(DefaultStart, d[s])
                            /\ s \notin active => d[s] = DefaultStart}
    /\ pc = [s \in Sessions |-> IF s \in active THEN "assert" ELSE "NoSession"]
    /\ user_token = [s \in Sessions |-> Unset]
    /\ employee_sales_query = [s \in Sessions |-> NoQuery]
    /\ connOpen = [s \in Sessions |-> FALSE]
    /\ connToken = [s \in Sessions |-> Unset]
    /\ cursorOpen = [s \in Sessions |-> FALSE]
    /\ exc = [s \in Sessions |-> "none"]
    /\ sales_data = [s \in Sessions |-> <<>>]
    /\ page = [s \in Sessions |-> EmptyPage]
    /\ nConnect = [s \in Sessions |-> 0]
    /\ nExecute = [s \in Sessions |-> 0]

Init == InitWith(Sessions, CycleWarehouses)

InitQuery == InitWith({"s1"}, QueryWarehouses \cup CycleWarehouses)

InitPresentation == InitWith({"s1"}, PresentationWarehouses)

(***************************************************************************)
(* The script run of one session, one action per step.                     *)
(***************************************************************************)
Terminal == {"Rendered", "EmptyWarning", "ErrorDisplayed"}

AssertAlwaysPasses == TRUE

\* assert os.getenv('DATABRICKS_WAREHOUSE_ID')
AssertPasses == env_warehouse_id

\* Line 9, then cfg = Config().  A failed assert is not inside any try: the
\* run ends there with the AssertionError.
StartupAssert(s) ==
    /\ pc[s] = "assert"
    /\ pc' = [pc EXCEPT ![s] = IF AssertPasses THEN "read_inputs" ELSE "Aborted"]
    /\ UNCHANGED <<env_warehouse_id, employees, salesorders, headers, start_date,
                   end_date, user_token, employee_sales_query, connOpen,
                   connToken, cursorOpen, exc, sales_data, page, nConnect,
                   nExecute>>

HeaderOfOtherRequest(s) == headers[CHOOSE t \in Sessions : t # s]

\* st.context.headers.get('X-Forwarded-Access-Token')
ExtractToken(s) == headers[s]

\* The two '%Y-%m-%d' strings interpolated into employee_sales_query.
BuildQuery(s) == [lo |-> StrftimeYmd(start_date[s]), hi |-> StrftimeYmd(end_date[s])]

\* Lines 26-61: header, token, date pickers, query text.
ReadInputs(s) ==
    /\ pc[s] = "read_inputs"
    /\ user_token' = [user_token EXCEPT ![s] = ExtractToken(s)]
    /\ employee_sales_query' = [employee_sales_query EXCEPT ![s] = BuildQuery(s)]
    /\ pc' = [pc EXCEPT ![s] = "connect"]
    /\ UNCHANGED <<env_warehouse_id, employees, salesorders, headers, start_date,
                   end_date, connOpen, connToken, cursorOpen, exc, sales_data,
                   page, nConnect, nExecute>>

AccessTokenOrFallback(s) ==
    IF user_token[s] = None THEN TokenOf(s) ELSE user_token[s]

\* access_token=user_token
AccessTokenArgument(s) == user_token[s]

\* The warehouse accepts a connection only with a valid user token.
Authenticates(token) == token \in ValidTokens

RetryConnect == "connect"

\* Where a raising sql.connect leads: out of the function, to the handler.
OnConnectError == "except"

\* sql.connect(...) inside the spinner.  It fails on a bad or missing token,
\* and may fail for any other reason (unreachable host).
Connect(s) ==
    /\ pc[s] = "connect"
    /\ nConnect' = [nConnect EXCEPT ![s] = @ + 1]
    /\ connToken' = [connToken EXCEPT ![s] = AccessTokenArgument(s)]
    /\ \E reachable \in BOOLEAN :
        IF reachable /\ Authenticates(AccessTokenArgument(s))
        THEN /\ connOpen' = [connOpen EXCEPT ![s] = TRUE]
             /\ pc' = [pc EXCEPT ![s] = "cursor"]
             /\ exc' = exc
        ELSE /\ exc' = [exc EXCEPT ![s] = "connect"]
             /\ pc' = [pc EXCEPT ![s] = OnConnectError]
             /\ connOpen' = connOpen
    /\ UNCHANGED <<env_warehouse_id, employees, salesorders, headers, start_date,
                   end_date, user_token, employee_sales_query, cursorOpen,
                   sales_data, page, nExecute>>

\* connection.cursor(): a cursor, or an exception that passes through the
\* connection's with block.
OpenCursor(s) ==
    /\ pc[s] = "cursor"
    /\ \E ok \in BOOLEAN :
        IF ok
        THEN /\ cursorOpen' = [cursorOpen EXCEPT ![s] = TRUE]
             /\ pc' = [pc EXCEPT ![s] = "execute"]
             /\ exc' = exc
        ELSE /\ cursorOpen' = cursorOpen
             /\ pc' = [pc EXCEPT ![s] = "conn_exit"]
             /\ exc' = [exc EXCEPT ![s] = "cursor"]
    /\ UNCHANGED <<env_warehouse_id, employees, salesorders, headers, start_date,
                   end_date, user_token, employee_sales_query, connOpen,
                   connToken, sales_data, page, nConnect, nExecute>>

\* cursor.execute(query): succeeds, or raises (permission denied, warehouse
\* error).
Execute(s) ==
    /\ pc[s] = "execute"
    /\ nExecute' = [nExecute EXCEPT ![s] = @ + 1]
    /\ \E ok \in BOOLEAN :
        IF ok
        THEN /\ pc' = [pc EXCEPT ![s] = "fetch"]
             /\ exc' = exc
        ELSE /\ pc' = [pc EXCEPT ![s] = "cursor_exit"]
             /\ exc' = [exc EXCEPT ![s] = "execute"]
    /\ UNCHANGED <<env_warehouse_id, employees, salesorders, headers, start_date,
                   end_date, user_token, employee_sales_query, connOpen,
                   connToken, cursorOpen, sales_data, page, nConnect>>

\* cursor.fetchall_arrow().to_pandas(): the whole result, or an exception.
Fetch(s) ==
    /\ pc[s] = "fetch"
    /\ \/ /\ \E tieAsc \in BOOLEAN :
               sales_data' = [sales_data EXCEPT
                                 ![s] = QueryResult(employee_sales_query[s], tieAsc)]
          /\ exc' = exc
       \/ /\ exc' = [exc EXCEPT ![s] = "fetch"]
          /\ sales_data' = sales_data
    /\ pc' = [pc EXCEPT ![s] = "cursor_exit"]
    /\ UNCHANGED <<env_warehouse_id, employees, salesorders, headers, start_date,
                   end_date, user_token, employee_sales_query, connOpen,
                   connToken, cursorOpen, page, nConnect, nExecute>>

LeftOpenWhenRaising(raising) == raising

\* A with block's __exit__ closes its resource whether or not an exception
\* is passing through: is the resource still open afterwards?
OpenAfterExit(raising) == FALSE

\* End of "with connection.cursor() as cursor".
CursorExit(s) ==
    /\ pc[s] = "cursor_exit"
    /\ cursorOpen' = [cursorOpen EXCEPT ![s] = OpenAfterExit(exc[s] # "none")]
    /\ pc' = [pc EXCEPT ![s] = "conn_exit"]
    /\ UNCHANGED <<env_warehouse_id, employees, salesorders, headers, start_date,
                   end_date, user_token, employee_sales_query, connOpen,
                   connToken, exc, sales_data, page, nConnect, nExecute>>

\* End of "with sql.connect(...) as connection": the function returns the
\* DataFrame or lets the exception through to the except clause.
ConnExit(s) ==
    /\ pc[s] = "conn_exit"
    /\ connOpen' = [connOpen EXCEPT ![s] = OpenAfterExit(exc[s] # "none")]
    /\ pc' = [pc EXCEPT ![s] = IF exc[s] # "none" THEN "except" ELSE "render"]
    /\ UNCHANGED <<env_warehouse_id, employees, salesorders, headers, start_date,
                   end_date, user_token, employee_sales_query, connToken,
                   cursorOpen, exc, sales_data, page, nConnect, nExecute>>

\* Lines 68-87 and 134-135: the period and the four metrics, or the warning.
RenderSummary(s) ==
    /\ pc[s] = "render"
    /\ IF sales_data[s] # <<>>
       THEN /\ page' = [page EXCEPT
                           ![s].elements = @ \cup {"period", "metrics"},
                           ![s].metrics = SummaryMetrics(sales_data[s])]
            /\ pc' = [pc EXCEPT ![s] = "table"]
       ELSE /\ page' = [page EXCEPT ![s].elements = @ \cup {"warning"}]
            /\ pc' = [pc EXCEPT ![s] = "EmptyWarning"]
    /\ UNCHANGED <<env_warehouse_id, employees, salesorders, headers, start_date,
                   end_date, user_token, employee_sales_query, connOpen,
                   connToken, cursorOpen, exc, sales_data, nConnect, nExecute>>

\* Lines 89-116: the subheader, the formatted copy, the table.  Formatting a
\* None raises TypeError after the subheader is out.
RenderTable(s) ==
    /\ pc[s] = "table"
    /\ IF TableFormattable(sales_data[s])
       THEN /\ page' = [page EXCEPT
                           ![s].elements = @ \cup {"top_header", "table"},
                           ![s].table = DisplayData(sales_data[s])]
            /\ pc' = [pc EXCEPT ![s] = "charts"]
            /\ exc' = exc
       ELSE /\ page' = [page EXCEPT ![s].elements = @ \cup {"top_header"}]
            /\ pc' = [pc EXCEPT ![s] = "except"]
            /\ exc' = [exc EXCEPT ![s] = "format"]
    /\ UNCHANGED <<env_warehouse_id, employees, salesorders, headers, start_date,
                   end_date, user_token, employee_sales_query, connOpen,
                   connToken, cursorOpen, sales_data, nConnect, nExecute>>

\* Lines 118-132: the two bar charts of the first ten rows.
RenderCharts(s) ==
    /\ pc[s] = "charts"
    /\ page' = [page EXCEPT
                   ![s].elements = @ \cup {"chart_header", "sales_chart", "orders_chart"},
                   ![s].sales_chart = ChartData(sales_data[s], "TOTAL_SALES"),
                   ![s].orders_chart = ChartData(sales_data[s], "ORDER_COUNT")]
    /\ pc' = [pc EXCEPT ![s] = "Rendered"]
    /\ UNCHANGED <<env_warehouse_id, employees, salesorders, headers, start_date,
                   end_date, user_token, employee_sales_query, connOpen,
                   connToken, cursorOpen, exc, sales_data, nConnect, nExecute>>

\* Lines 137-139: st.error with str(e), then st.info.
ExceptHandler(s) ==
    /\ pc[s] = "except"
    /\ page' = [page EXCEPT ![s].elements = @ \cup {"error", "info"},
                            ![s].message = exc[s]]
    /\ pc' = [pc EXCEPT ![s] = "ErrorDisplayed"]
    /\ UNCHANGED <<env_warehouse_id, employees, salesorders, headers, start_date,
                   end_date, user_token, employee_sales_query, connOpen,
                   connToken, cursorOpen, exc, sales_data, nConnect, nExecute>>

\* A widget interaction after a finished run: a new request with its own
\* header and the picked dates; the script runs again from the top with
\* fresh script variables and an empty page.
Interact(s) ==
    /\ pc[s] \in Terminal
    /\ \E h \in HeaderValues(s), d1 \in Dates, d2 \in Dates :
        /\ headers' = [headers EXCEPT ![s] = h]
        /\ start_date' = [start_date EXCEPT ![s] = d1]
        /\ end_date' = [end_date EXCEPT ![s] = d2]
    /\ pc' = [pc EXCEPT ![s] = "assert"]
    /\ user_token' = [user_token EXCEPT ![s] = Unset]
    /\ employee_sales_query' = [employee_sales_query EXCEPT ![s] = NoQuery]
    /\ connToken' = [connToken EXCEPT ![s] = Unset]
    /\ exc' = [exc EXCEPT ![s] = "none"]
    /\ sales_data' = [sales_data EXCEPT ![s] = <<>>]
    /\ page' = [page EXCEPT ![s] = EmptyPage]
    /\ nConnect' = [nConnect EXCEPT ![s] = 0]
    /\ nExecute' = [nExecute EXCEPT ![s] = 0]
    /\ UNCHANGED <<env_warehouse_id, employees, salesorders, connOpen, cursorOpen>>

Next ==
    \E s \in Sessions :
        \/ StartupAssert(s)
        \/ ReadInputs(s)
        \/ Connect(s)
        \/ OpenCursor(s)
        \/ Execute(s)
        \/ Fetch(s)
        \/ CursorExit(s)
        \/ ConnExit(s)
        \/ RenderSummary(s)
        \/ RenderTable(s)
        \/ RenderCharts(s)
        \/ ExceptHandler(s)
        \/ Interact(s)

\* Two sessions rendering concurrently against a small warehouse.
Spec == Init /\ [][Next]_vars

\* One session against every small order table.
SpecQuery == InitQuery /\ [][Next]_vars

\* One session against results of up to MaxEmployees rows.
SpecPresentation == InitPresentation /\ [][Next]_vars

(***************************************************************************)
(* Vocabulary of the properties.                                           *)
(***************************************************************************)
\* The run of s is inside sql_query_with_user_token, past sql.connect.
InCall(s) == pc[s] \in {"cursor", "execute", "fetch", "cursor_exit", "conn_exit"}

\* The fetch of this run returned a DataFrame.
Fetched(s) ==
    \/ pc[s] \in {"render", "table", "charts", "Rendered", "EmptyWarning"}
    \/ pc[s] \in {"cursor_exit", "conn_exit"} /\ exc[s] = "none"
    \/ pc[s] \in {"except", "ErrorDisplayed"} /\ exc[s] = "format"

ResultElements ==
    {"period", "metrics", "top_header", "table", "chart_header", "sales_chart",
     "orders_chart"}

DateBefore(a, b) == a # b /\ LexLeq(a, b)

DateOf(t) == <<t[1], t[2], t[3]>>

(***************************************************************************)
(* C1: a run whose request carries no token, or an invalid one, never      *)
(* gets a result: it shows neither the warning nor metrics, table or       *)
(* charts, and the only state it ends in is ErrorDisplayed, with exactly   *)
(* the error and the hint on the page.                                     *)
(***************************************************************************)
C1_BadTokenEndsInError ==
    \A s \in Sessions :
        headers[s] \notin ValidTokens =>
            /\ ~Fetched(s)
            /\ pc[s] \notin {"Rendered", "EmptyWarning"}
            /\ page[s].elements \subseteq {"error", "info"}
            /\ pc[s] \in Terminal =>
                   pc[s] = "ErrorDisplayed" /\ page[s].elements = {"error", "info"}

C1_Witness ==
    \E s \in Sessions :
        /\ headers[s] = None
        /\ user_token[s] = None
        /\ pc[s] = "ErrorDisplayed"
        /\ page[s].message = "connect"

(***************************************************************************)
(* C2: the access token given to sql.connect is the token of the headers   *)
(* of the request this run serves, never another session's token and       *)
(* never one kept from an earlier run.                                     *)
(***************************************************************************)
C2_TokenIsRequestScoped ==
    \A s \in Sessions :
        nConnect[s] > 0 =>
            /\ connToken[s] = headers[s]
            /\ \A t \in Sessions \ {s} : connToken[s] # TokenOf(t)

C2_Witness ==
    \E s \in Sessions, t \in Sessions :
        /\ s # t
        /\ connOpen[s] /\ connOpen[t]
        /\ connToken[s] = TokenOf(s)
        /\ connToken[t] = TokenOf(t)

(***************************************************************************)
(* C3: outside the call no connection and no cursor is open, whether the   *)
(* call returned or raised, and the cursor is never open without its       *)
(* connection (it is opened after and closed before it).                   *)
(***************************************************************************)
C3_ResourcesReleased ==
    \A s \in Sessions :
        /\ cursorOpen[s] => connOpen[s]
        /\ ~InCall(s) => ~connOpen[s] /\ ~cursorOpen[s]

C3_Witness ==
    \E s \in Sessions :
        /\ pc[s] = "except"
        /\ exc[s] = "execute"
        /\ ~connOpen[s] /\ ~cursorOpen[s]

(***************************************************************************)
(* C4: a run calls sql.connect once and cursor.execute at most once; a     *)
(* run that ended has connected exactly once, and one that ended with a    *)
(* result or the warning has executed exactly once.                        *)
(***************************************************************************)
C4_SingleAttempt ==
    \A s \in Sessions :
        /\ nConnect[s] <= 1
        /\ nExecute[s] <= 1
        /\ pc[s] \in Terminal => nConnect[s] = 1
        /\ pc[s] \in {"Rendered", "EmptyWarning"} => nExecute[s] = 1
        /\ exc[s] \in {"connect", "cursor"} => nExecute[s] = 0

C4_Witness ==
    \E s \in Sessions, t \in Sessions :
        /\ pc[s] = "ErrorDisplayed" /\ exc[s] = "execute" /\ nExecute[s] = 1
        /\ pc[t] = "ErrorDisplayed" /\ exc[t] = "connect" /\ nConnect[t] = 1

(***************************************************************************)
(* C5: a finished run is in exactly one of Rendered (metrics, table and    *)
(* charts), EmptyWarning (only the warning) and ErrorDisplayed (only the   *)
(* error and the hint); the error is never on the page together with       *)
(* metrics, table, charts or the warning.                                  *)
(***************************************************************************)
C5_ExclusiveTerminalStates ==
    \A s \in Sessions :
        /\ pc[s] = "Rendered" => page[s].elements = ResultElements
        /\ pc[s] = "EmptyWarning" => page[s].elements = {"warning"}
        /\ pc[s] = "ErrorDisplayed" => page[s].elements = {"error", "info"}
        /\ "error" \in page[s].elements =>
               page[s].elements \cap (ResultElements \cup {"warning"}) = {}

(***************************************************************************)
(* C6 as stated: a finished run whose start date is later than its end     *)
(* date is in EmptyWarning.                                                *)
(***************************************************************************)
C6_ReversedRangeAlwaysWarns ==
    \A s \in Sessions :
        DateBefore(end_date[s], start_date[s]) /\ pc[s] \in Terminal =>
            pc[s] = "EmptyWarning"

(***************************************************************************)
(* C6 amended: with a start date later than the end date the result of a   *)
(* successful fetch is empty, so the run shows no metrics, table or        *)
(* charts; it ends in EmptyWarning when connection and query succeed and   *)
(* in ErrorDisplayed only when the call of sql_query_with_user_token        *)
(* raised (sql.connect, cursor, execute or the fetch).                     *)
(***************************************************************************)
C6_ReversedRangeIsEmpty ==
    \A s \in Sessions :
        DateBefore(end_date[s], start_date[s]) =>
            /\ sales_data[s] = <<>>
            /\ page[s].elements \cap ResultElements = {}
            /\ pc[s] \in Terminal =>
                   \/ pc[s] = "EmptyWarning" /\ exc[s] = "none"
                   \/ pc[s] = "ErrorDisplayed"
                      /\ exc[s] \in {"connect", "cursor", "execute", "fetch"}

\* A reversed range around an existing order ends in the warning.
C6_Witness ==
    \E s \in Sessions :
        /\ DateBefore(end_date[s], start_date[s])
        /\ pc[s] = "EmptyWarning"
        /\ \E so \in salesorders :
               /\ LexLeq(end_date[s], DateOf(so.CREATEDAT))
               /\ LexLeq(DateOf(so.CREATEDAT), start_date[s])

(***************************************************************************)
(* C7: without DATABRICKS_WAREHOUSE_ID a run stops at the assert: no token *)
(* is read, nothing is connected or executed, nothing is shown, and the    *)
(* failure does not reach the except clause.                               *)
(***************************************************************************)
C7_FailsFastWithoutWarehouseId ==
    ~env_warehouse_id =>
        \A s \in Sessions :
            /\ pc[s] \in {"assert", "Aborted", "NoSession"}
            /\ user_token[s] = Unset
            /\ connToken[s] = Unset
            /\ nConnect[s] = 0 /\ nExecute[s] = 0
            /\ ~connOpen[s] /\ ~cursorOpen[s]
            /\ page[s] = EmptyPage

C7_Witness == ~env_warehouse_id /\ \A s \in Sessions : pc[s] = "Aborted"

(***************************************************************************)
(* C8: for a range with start <= end the fetched result is the aggregate   *)
(* over the closed interval of dates [start, end], both bounds sent as     *)
(* YYYY-MM-DD: an employee has a row exactly when one of their orders was  *)
(* created on a day from start to end, the end date included, the row      *)
(* counts exactly those orders, there is one row per employee, and the     *)
(* rows are in descending order of TOTAL_SALES.                            *)
(***************************************************************************)
OrdersInDateRange(e, s) ==
    {so \in salesorders :
        /\ so.CREATEDBY = e
        /\ LexLeq(start_date[s], DateOf(so.CREATEDAT))
        /\ LexLeq(DateOf(so.CREATEDAT), end_date[s])}

IsYmdOf(str, d) ==
    /\ Len(str) = 10
    /\ str[5] = "-" /\ str[8] = "-"
    /\ ParseDigits(SubSeq(str, 1, 4)) = d[1]
    /\ ParseDigits(SubSeq(str, 6, 7)) = d[2]
    /\ ParseDigits(SubSeq(str, 9, 10)) = d[3]

SortedDescending(df) ==
    \A i \in 1..Len(df), j \in 1..Len(df) :
        i < j => df[i].TOTAL_SALES >= df[j].TOTAL_SALES

C8_ClosedDateInterval ==
    \A s \in Sessions :
        Fetched(s) /\ LexLeq(start_date[s], end_date[s]) =>
            LET df == sales_data[s]
            IN  /\ IsYmdOf(employee_sales_query[s].lo, start_date[s])
                /\ IsYmdOf(employee_sales_query[s].hi, end_date[s])
                /\ \A e \in DOMAIN employees :
                       (\E i \in 1..Len(df) : df[i].EMPLOYEEID = e)
                           <=> OrdersInDateRange(e, s) # {}
                /\ \A i \in 1..Len(df) :
                       df[i].ORDER_COUNT =
                           Cardinality(OrdersInDateRange(df[i].EMPLOYEEID, s))
                /\ \A i \in 1..Len(df), j \in 1..Len(df) :
                       i # j => df[i].EMPLOYEEID # df[j].EMPLOYEEID
                /\ SortedDescending(df)

(***************************************************************************)
(* C9: the four metrics on the page are what a recomputation from all      *)
(* rows of the result gives: the number of rows, the sum of TOTAL_SALES,   *)
(* the sum of ORDER_COUNT and the unweighted mean of AVERAGE_ORDER_VALUE,  *)
(* in the display format.                                                  *)
(***************************************************************************)
ColumnTotal(df, col) == SumFn([i \in 1..Len(df) |-> df[i][col]], 1..Len(df))

RECURSIVE CommonDenominator(_)
CommonDenominator(df) ==
    IF df = <<>> THEN 1
    ELSE LET d == df[1].AVERAGE_ORDER_VALUE.den
             r == CommonDenominator(Tail(df))
         IN  (d * r) \div Gcd(d, r)

\* (sum of the averages) / (number of rows), over the common denominator.
ColumnMean(df) ==
    LET D == CommonDenominator(df)
        T == SumFn([i \in 1..Len(df) |->
                       df[i].AVERAGE_ORDER_VALUE.num
                           * (D \div df[i].AVERAGE_ORDER_VALUE.den)],
                   1..Len(df))
    IN  Frac(T, D * Len(df))

C9_MetricsRecomputable ==
    \A s \in Sessions :
        "metrics" \in page[s].elements =>
            LET df == sales_data[s]
                m == page[s].metrics
            IN  /\ df # <<>>
                /\ m.employees = Len(df)
                /\ m.total_sales = FormatCurrency(ColumnTotal(df, "TOTAL_SALES"))
                /\ m.total_orders = FormatThousands(ColumnTotal(df, "ORDER_COUNT"))
                /\ m.avg_order_value = FormatCurrency(RoundHalfEven(ColumnMean(df)))

\* Metrics of a result of more than ten rows whose employees differ in
\* their number of orders.
C9_Witness ==
    \E s \in Sessions :
        /\ "metrics" \in page[s].elements
        /\ Len(sales_data[s]) > TopN
        /\ \E i \in 1..Len(sales_data[s]), j \in 1..Len(sales_data[s]) :
               sales_data[s][i].ORDER_COUNT # sales_data[s][j].ORDER_COUNT

(***************************************************************************)
(* C10: the two bar charts on the page hold exactly the first min(n, 10)   *)
(* rows of the n-row result, in result order: full name with TOTAL_SALES   *)
(* and full name with ORDER_COUNT; no later row is in either chart; a run  *)
(* in Rendered shows both.                                                 *)
(***************************************************************************)
C10_ChartsShowFirstTen ==
    \A s \in Sessions :
        pc[s] = "Rendered" \/ page[s].elements \cap {"sales_chart", "orders_chart"} # {} =>
            LET df == sales_data[s]
                n == IF Len(df) < 10 THEN Len(df) ELSE 10
                sc == page[s].sales_chart
                oc == page[s].orders_chart
            IN  /\ {"sales_chart", "orders_chart"} \subseteq page[s].elements
                /\ n > 0
                /\ SortedDescending(df)
                /\ Len(sc) = n /\ Len(oc) = n
                /\ \A i \in 1..n :
                       /\ sc[i] = <<df[i].FULL_NAME, df[i].TOTAL_SALES>>
                       /\ oc[i] = <<df[i].FULL_NAME, df[i].ORDER_COUNT>>
                /\ \A i \in (n + 1)..Len(df), k \in 1..n :
                       /\ sc[k][1] # df[i].FULL_NAME
                       /\ oc[k][1] # df[i].FULL_NAME

C10_Witness ==
    \E s \in Sessions :
        /\ pc[s] = "Rendered"
        /\ Len(sales_data[s]) > 10
        /\ Len(page[s].sales_chart) = 10

====
